---------------------------- MODULE Spec2Model ----------------------------
(***************************************************************************)
(* Model of kplngyi/SubConvert: subcon.py (main, merge_all_nodes,          *)
(* get_subscription_content, generate_subconvert_url) and get_suburl.py    *)
(* (process_airports, get_subscription_from_airport, the link extractor).  *)
(*                                                                         *)
(* Text is a sequence of Unicode code points, as a Python str is.  An HTML *)
(* page is a sequence of fragments (an input with a value attribute, a URL *)
(* in running text, an anchor with a double- or single-quoted href); the   *)
(* URL inside a fragment is text, and the regular expressions and string   *)
(* tests of the source are computed on it character by character.          *)
(***************************************************************************)
EXTENDS Integers, Sequences, FiniteSets, TLC

VARIABLES
    mode,            \* which entry point runs: "subcon", "suburl", "extract", "content"
    pc,              \* position of the run
    airports,        \* the configured airports (a sequence of AirportConfig)
    LOCAL_NODES,     \* subcon.py LOCAL_NODES, as read from the environment
    idx,             \* number of airports the loop has gone through
    all_nodes,       \* merge_all_nodes: the accumulating list of node lines
    requests,        \* every HTTP GET issued so far, in order
    served,          \* per airport gone through: what the servers answered and what the loop did
    merged_content,  \* main: the result of merge_all_nodes
    emitted,         \* main: the converter URLs logged
    call             \* the function under test and its result ("extract" and "content")

vars == <<mode, pc, airports, LOCAL_NODES, idx, all_nodes, requests, served,
          merged_content, emitted, call>>

-----------------------------------------------------------------------------
(* Bounds of the model *)

MaxAirports == 2
MaxLocalLen == 3
MaxBodyLen == 5
MaxTextLen == 2
MaxPage == 2

-----------------------------------------------------------------------------
(* Text: sequences of code points *)

AsciiPrintable ==
    <<" ", "!", "\"", "#", "$", "%", "&", "'", "(", ")", "*", "+", ",", "-", ".", "/",
      "0", "1", "2", "3", "4", "5", "6", "7", "8", "9", ":", ";", "<", "=", ">", "?",
      "@", "A", "B", "C", "D", "E", "F", "G", "H", "I", "J", "K", "L", "M", "N", "O",
      "P", "Q", "R", "S", "T", "U", "V", "W", "X", "Y", "Z", "[", "\\", "]", "^", "_",
      "GRAVE", "a", "b", "c", "d", "e", "f", "g", "h", "i", "j", "k", "l", "m", "n", "o",
      "p", "q", "r", "s", "t", "u", "v", "w", "x", "y", "z", "{", "|", "}", "~">>

\* ord(c) of a printable ASCII character
Ord(c) == 31 + (CHOOSE i \in 1..Len(AsciiPrintable) : AsciiPrintable[i] = c)

\* the str whose characters are given
S(chars) == [i \in 1..Len(chars) |-> Ord(chars[i])]

NL == 10

\* Python values: None and str
PyNone == [type |-> "None"]
Str(s) == [type |-> "str", s |-> s]
\* bool(v) for None and str
Truthy(v) == v.type = "str" /\ v.s # <<>>

\* s[i:] and s[i:j] with 1-based inclusive bounds
From(s, i) == SubSeq(s, i, Len(s))

\* s.startswith(p)
StartsWith(s, p) == Len(p) <= Len(s) /\ SubSeq(s, 1, Len(p)) = p

\* p occurs in s at position k
OccursAt(s, p, k) == k >= 1 /\ k + Len(p) - 1 <= Len(s) /\ SubSeq(s, k, k + Len(p) - 1) = p

\* p in s
Contains(s, p) == \E k \in 1..(Len(s) + 1) : OccursAt(s, p, k)

\* str.lower() (ASCII letters; the other characters of the model have no case)
LowerChar(c) == IF c >= 65 /\ c <= 90 THEN c + 32 ELSE c
Lower(s) == [i \in 1..Len(s) |-> LowerChar(s[i])]

\* str.isspace() of one character
IsSpace(c) ==
    \/ c \in 9..13 \/ c \in 28..32 \/ c = 133 \/ c = 160 \/ c = 5760
    \/ c \in 8192..8202 \/ c \in {8232, 8233, 8239, 8287, 12288}

\* str.strip()
Strip(s) ==
    LET keep == {i \in 1..Len(s) : ~IsSpace(s[i])}
    IN  IF keep = {} THEN <<>>
        ELSE SubSeq(s, CHOOSE i \in keep : \A j \in keep : i <= j,
                       CHOOSE i \in keep : \A j \in keep : i >= j)

\* str.split(sep) for a one-character separator: always at least one field
RECURSIVE Split(_, _)
Split(s, sep) ==
    LET cuts == {i \in 1..Len(s) : s[i] = sep}
    IN  IF cuts = {} THEN <<s>>
        ELSE LET k == CHOOSE i \in cuts : \A j \in cuts : i <= j
             IN  <<SubSeq(s, 1, k - 1)>> \o Split(From(s, k + 1), sep)

\* the line boundaries of str.splitlines()
IsLineBreak(c) == c \in {10, 11, 12, 13, 28, 29, 30, 133, 8232, 8233}

\* str.splitlines(): "\r\n" is one boundary, no empty last line
RECURSIVE SplitLines(_)
SplitLines(s) ==
    LET cuts == {i \in 1..Len(s) : IsLineBreak(s[i])}
    IN  IF s = <<>> THEN <<>>
        ELSE IF cuts = {} THEN <<s>>
        ELSE LET k == CHOOSE i \in cuts : \A j \in cuts : i <= j
                 n == IF s[k] = 13 /\ k < Len(s) /\ s[k + 1] = 10 THEN k + 2 ELSE k + 1
             IN  <<SubSeq(s, 1, k - 1)>> \o SplitLines(From(s, n))

\* sep.join(parts)
RECURSIVE Join(_, _)
Join(parts, sep) ==
    IF parts = <<>> THEN <<>>
    ELSE IF Len(parts) = 1 THEN parts[1]
    ELSE parts[1] \o <<sep>> \o Join(Tail(parts), sep)

\* [x for x in seq if keep(x)]
RECURSIVE NonEmpty(_)
NonEmpty(seq) ==
    IF seq = <<>> THEN <<>>
    ELSE (IF seq[1] # <<>> THEN <<seq[1]>> ELSE <<>>) \o NonEmpty(Tail(seq))

\* all sequences over a set of length at most n
RECURSIVE SeqsUpTo(_, _)
SeqsUpTo(set, n) ==
    IF n = 0 THEN {<<>>}
    ELSE LET shorter == SeqsUpTo(set, n - 1)
         IN  shorter \cup {Append(q, x) : q \in {r \in shorter : Len(r) = n - 1}, x \in set}

-----------------------------------------------------------------------------
(* base64 and UTF-8, as the standard library computes them *)

Result(ok, val) == [ok |-> ok, val |-> val]
Failed == Result(FALSE, <<>>)

\* the base64 alphabet: A-Z a-z 0-9 + /
IsB64(c) ==
    \/ c \in 65..90 \/ c \in 97..122 \/ c \in 48..57 \/ c = 43 \/ c = 47
B64Val(c) ==
    IF c \in 65..90 THEN c - 65
    ELSE IF c \in 97..122 THEN c - 71
    ELSE IF c \in 48..57 THEN c + 4
    ELSE IF c = 43 THEN 62 ELSE 63
B64Char(v) ==
    IF v < 26 THEN v + 65
    ELSE IF v < 52 THEN v + 71
    ELSE IF v < 62 THEN v - 4
    ELSE IF v = 62 THEN 43 ELSE 47
PAD == 61

\* binascii.a2b_base64 without strict mode: characters outside the alphabet are
\* skipped, a complete pad ends the input, an incomplete quad is an error
RECURSIVE a2b_base64(_, _, _, _, _, _)
a2b_base64(s, i, quad_pos, leftchar, pads, out) ==
    IF i > Len(s) THEN (IF quad_pos # 0 THEN Failed ELSE Result(TRUE, out))
    ELSE LET c == s[i] IN
        IF c = PAD THEN
            IF quad_pos >= 2 /\ quad_pos + pads + 1 >= 4 THEN Result(TRUE, out)
            ELSE a2b_base64(s, i + 1, quad_pos, leftchar,
                            IF quad_pos >= 2 THEN pads + 1 ELSE pads, out)
        ELSE IF ~IsB64(c) THEN a2b_base64(s, i + 1, quad_pos, leftchar, pads, out)
        ELSE LET v == B64Val(c) IN
            CASE quad_pos = 0 -> a2b_base64(s, i + 1, 1, v, 0, out)
              [] quad_pos = 1 ->
                    a2b_base64(s, i + 1, 2, v % 16, 0, Append(out, (leftchar * 4) + (v \div 16)))
              [] quad_pos = 2 ->
                    a2b_base64(s, i + 1, 3, v % 4, 0, Append(out, (leftchar * 16) + (v \div 4)))
              [] OTHER ->
                    a2b_base64(s, i + 1, 0, 0, 0, Append(out, (leftchar * 64) + v))

\* base64.b64decode(text): a str argument must be ASCII
b64decode(s) ==
    IF \E i \in 1..Len(s) : s[i] > 127 THEN Failed
    ELSE a2b_base64(s, 1, 0, 0, 0, <<>>)

\* base64.b64encode(bytes)
RECURSIVE b64encode(_)
b64encode(b) ==
    IF b = <<>> THEN <<>>
    ELSE IF Len(b) = 1 THEN
        <<B64Char(b[1] \div 4), B64Char((b[1] % 4) * 16), PAD, PAD>>
    ELSE IF Len(b) = 2 THEN
        <<B64Char(b[1] \div 4), B64Char(((b[1] % 4) * 16) + (b[2] \div 16)),
          B64Char((b[2] % 16) * 4), PAD>>
    ELSE <<B64Char(b[1] \div 4), B64Char(((b[1] % 4) * 16) + (b[2] \div 16)),
           B64Char(((b[2] % 16) * 4) + (b[3] \div 64)), B64Char(b[3] % 64)>>
         \o b64encode(From(b, 4))

IsCont(b, i) == i <= Len(b) /\ b[i] \in 128..191

\* bytes.decode('utf-8'): strict, rejecting overlong forms and surrogates
RECURSIVE utf8_decode(_, _, _)
utf8_decode(b, i, out) ==
    IF i > Len(b) THEN Result(TRUE, out)
    ELSE LET c == b[i] IN
        IF c < 128 THEN utf8_decode(b, i + 1, Append(out, c))
        ELSE IF c \in 194..223 THEN
            IF IsCont(b, i + 1)
            THEN utf8_decode(b, i + 2, Append(out, ((c - 192) * 64) + (b[i + 1] - 128)))
            ELSE Failed
        ELSE IF c \in 224..239 THEN
            IF /\ IsCont(b, i + 1) /\ IsCont(b, i + 2)
               /\ (c = 224 => b[i + 1] >= 160)
               /\ (c = 237 => b[i + 1] <= 159)
            THEN utf8_decode(b, i + 3,
                     Append(out, ((c - 224) * 4096) + ((b[i + 1] - 128) * 64) + (b[i + 2] - 128)))
            ELSE Failed
        ELSE IF c \in 240..244 THEN
            IF /\ IsCont(b, i + 1) /\ IsCont(b, i + 2) /\ IsCont(b, i + 3)
               /\ (c = 240 => b[i + 1] >= 144)
               /\ (c = 244 => b[i + 1] <= 143)
            THEN utf8_decode(b, i + 4,
                     Append(out, ((c - 240) * 262144) + ((b[i + 1] - 128) * 4096)
                                 + ((b[i + 2] - 128) * 64) + (b[i + 3] - 128)))
            ELSE Failed
        ELSE Failed

\* str.encode('utf-8') of one code point (surrogates cannot be encoded)
utf8_char(c) ==
    IF c < 128 THEN <<c>>
    ELSE IF c < 2048 THEN <<192 + (c \div 64), 128 + (c % 64)>>
    ELSE IF c < 65536 THEN <<224 + (c \div 4096), 128 + ((c \div 64) % 64), 128 + (c % 64)>>
    ELSE <<240 + (c \div 262144), 128 + ((c \div 4096) % 64),
          128 + ((c \div 64) % 64), 128 + (c % 64)>>

RECURSIVE utf8_encode(_)
utf8_encode(s) ==
    IF s = <<>> THEN <<>> ELSE utf8_char(s[1]) \o utf8_encode(Tail(s))

-----------------------------------------------------------------------------
(* HTTP responses *)

\* requests.get raised (connection failure, timeout)
NetError == [kind |-> "error", status |-> 0, text |-> <<>>]
Http(status, text) == [kind |-> "http", status |-> status, text |-> text]

\* Response.raise_for_status(): HTTPError for 4xx and 5xx
RaisesForStatus(resp) == resp.status >= 400 /\ resp.status < 600

-----------------------------------------------------------------------------
(* HTML pages *)

\* A fragment of a page, in document order:
\*   "input"  <input value="U">       "text"  U in running text
\*   "a_dq"   <a href="U">            "a_sq"  <a href='U'>
Fragment(kind, url) == [kind |-> kind, url |-> url]

URL_MU == S(<<"h", "t", "t", "p", ":", "/", "/", "h", "/", "y", "?", "m", "u", "=", "c", "l", "a", "s", "h">>)  \* http://h/y?mu=clash
URL_LINK == S(<<"h", "t", "t", "p", ":", "/", "/", "h", "/", "l", "i", "n", "k", "/", "t">>)  \* http://h/link/t
URL_UPPER == S(<<"h", "t", "t", "p", "s", ":", "/", "/", "h", "/", "S", "u", "b">>)  \* https://h/Sub
URL_ROOT == S(<<"/", "s", "u", "b", "/", "a", "b", "c">>)  \* /sub/abc
URL_RELATIVE == S(<<"s", "u", "b", "/", "a", "b", "c">>)  \* sub/abc
URL_HTTPISH == S(<<"h", "t", "t", "p", "s", "u", "b">>)  \* httpsub
URL_PLAIN == S(<<"h", "t", "t", "p", ":", "/", "/", "h", "/", "x">>)  \* http://h/x

Urls == {URL_MU, URL_LINK, URL_UPPER, URL_ROOT, URL_RELATIVE, URL_HTTPISH, URL_PLAIN}
\* every URL as a double-quoted anchor; in the other kinds, the URLs on which a
\* strategy behaves differently than on the anchor
Fragments ==
    {Fragment("a_dq", u) : u \in Urls}
    \cup {Fragment("a_sq", u) : u \in Urls \ {URL_MU, URL_PLAIN}}
    \cup {Fragment("input", u) : u \in {URL_MU, URL_LINK}}
    \cup {Fragment("text", u) : u \in {URL_LINK, URL_PLAIN}}
Pages == SeqsUpTo(Fragments, MaxPage)

\* the airport URL of the model; every airport that has a url has this one
AIRPORT_URL == S(<<"h", "t", "t", "p", "s", ":", "/", "/", "g", "/", "u", "s", "e", "r">>)  \* https://g/user
COOKIE == S(<<"k", "=", "v">>)

HTTP == S(<<"h", "t", "t", "p">>)
HTTP_SCHEME == S(<<"h", "t", "t", "p", ":", "/", "/">>)
HTTPS_SCHEME == S(<<"h", "t", "t", "p", "s", ":", "/", "/">>)
SLASH == S(<<"/">>)

\* length of the match of  https?://  at position j of u, 0 when there is none
SchemeLen(u, j) ==
    IF OccursAt(u, HTTP_SCHEME, j) THEN Len(HTTP_SCHEME)
    ELSE IF OccursAt(u, HTTPS_SCHEME, j) THEN Len(HTTPS_SCHEME)
    ELSE 0

Min(set) == CHOOSE x \in set : \A y \in set : x <= y

\* the first element of a sequence of Python values that is not None
RECURSIVE FirstSome(_)
FirstSome(vals) ==
    IF vals = <<>> THEN PyNone
    ELSE IF vals[1] # PyNone THEN vals[1]
    ELSE FirstSome(Tail(vals))

-----------------------------------------------------------------------------
(* get_suburl.py: the link extractor *)

MU_PARAM == S(<<"?", "m", "u", "=">>)

\* re.search(rf'value="(https?://[^"]+\?mu={sub_pattern})"', ...) inside one
\* fragment: the value attribute is the whole of group 1
extract_url_re_in(f, sub_pattern) ==
    LET suffix == MU_PARAM \o sub_pattern
    IN  IF /\ f.kind = "input"
           /\ SchemeLen(f.url, 1) > 0
           /\ Len(f.url) >= SchemeLen(f.url, 1) + 1 + Len(suffix)
           /\ OccursAt(f.url, suffix, Len(f.url) - Len(suffix) + 1)
        THEN Str(f.url) ELSE PyNone

extract_url_re(html_content, sub_pattern) ==
    FirstSome([i \in 1..Len(html_content) |-> extract_url_re_in(html_content[i], sub_pattern)])

PathKeywords == {S(<<"/", "l", "i", "n", "k", "/">>), S(<<"/", "s", "u", "b", "s", "c", "r", "i", "b", "e">>), S(<<"/", "s", "u", "b">>)}
Keywords == {S(<<"l", "i", "n", "k">>), S(<<"s", "u", "b", "s", "c", "r", "i", "b", "e">>), S(<<"s", "u", "b">>)}

\* pattern1 = https?://[^\s<>"']+(?:/link/|/subscribe|/sub)[^\s<>"']*  on the text of
\* one URL: the leftmost scheme that has a path keyword at least one character
\* after it; the match runs to the end of the URL
pattern1_in(u) ==
    LET starts == {j \in 1..Len(u) :
                     /\ SchemeLen(u, j) > 0
                     /\ \E kw \in PathKeywords, k \in (j + SchemeLen(u, j) + 1)..Len(u) :
                            OccursAt(u, kw, k)}
    IN  IF starts = {} THEN PyNone ELSE Str(From(u, Min(starts)))

\* any(keyword in url.lower() for keyword in ['link', 'subscribe', 'sub'])
HasKeyword(url) == \E kw \in Keywords : Contains(Lower(url), kw)

\* pattern2 = href="(https?://[^"]+)"  on one fragment, with the keyword test
pattern2_in(f) ==
    IF /\ f.kind = "a_dq"
       /\ SchemeLen(f.url, 1) > 0
       /\ Len(f.url) > SchemeLen(f.url, 1)
       /\ HasKeyword(f.url)
    THEN Str(f.url) ELSE PyNone

\* urllib.parse.urljoin(base_url, href) for an href that starts with '/' and a
\* base that is an http(s) URL: the base's scheme for '//host/..', else its origin
urljoin(base_url, href) ==
    LET n == SchemeLen(base_url, 1)
        rest == From(base_url, n + 1)
        cut == {i \in 1..Len(rest) : rest[i] \in {Ord("/"), Ord("?"), Ord("#")}}
        netloc == IF cut = {} THEN rest ELSE SubSeq(rest, 1, Min(cut) - 1)
    IN  IF StartsWith(href, SLASH \o SLASH)
        THEN SubSeq(base_url, 1, n - 2) \o href
        ELSE SubSeq(base_url, 1, n) \o netloc \o href

\* one iteration of  for link in soup.find_all('a', href=True)
soup_link(f, base_url) ==
    IF f.kind \in {"a_dq", "a_sq"} /\ HasKeyword(f.url) THEN
        LET href == IF StartsWith(f.url, SLASH) THEN urljoin(base_url, f.url) ELSE f.url
        IN  IF StartsWith(href, HTTP) THEN Str(href) ELSE PyNone
    ELSE PyNone

Method1(html_content) ==
    FirstSome([i \in 1..Len(html_content) |-> pattern1_in(html_content[i].url)])
Method2(html_content) ==
    FirstSome([i \in 1..Len(html_content) |-> pattern2_in(html_content[i])])
\* an exception that leaves a function
PyRaise == [type |-> "raise"]

\* faulty variant: the exception of the BeautifulSoup block is not caught
Method3_uncaught(html_content, base_url, soup_raises) ==
    IF soup_raises THEN PyRaise
    ELSE FirstSome([i \in 1..Len(html_content) |-> soup_link(html_content[i], base_url)])

\* soup_raises: BeautifulSoup (or the loop under it) raises; the except clause
\* logs a warning and the function falls through to  return None
Method3(html_content, base_url, soup_raises) ==
    IF soup_raises THEN PyNone
    ELSE FirstSome([i \in 1..Len(html_content) |-> soup_link(html_content[i], base_url)])

\* the result of a call and, in order, the strategies it ran:
\* 1 extract_url_re, 2 pattern1, 3 pattern2, 4 BeautifulSoup
Ran(url, ran) == [url |-> url, ran |-> ran]

extract_subscription_url(html_content, base_url, soup_raises) ==
    IF Method1(html_content) # PyNone THEN Ran(Method1(html_content), <<2>>)
    ELSE IF Method2(html_content) # PyNone THEN Ran(Method2(html_content), <<2, 3>>)
    ELSE Ran(Method3(html_content, base_url, soup_raises), <<2, 3, 4>>)

STATUS_OK == 200
CLASH == S(<<"c", "l", "a", "s", "h">>)

\* faulty variant: the fallback chain is tried before the value="...?mu=" pattern
suburl_get_subscription_from_airport_fallback_first(airport_url, resp, soup_raises) ==
    IF resp.kind = "error" THEN Ran(PyNone, <<>>)
    ELSE IF resp.status = STATUS_OK THEN
        LET other == extract_subscription_url(resp.text, airport_url, soup_raises)
        IN  IF Truthy(other.url) THEN other
            ELSE Ran(extract_url_re(resp.text, CLASH), other.ran \o <<1>>)
    ELSE Ran(PyNone, <<>>)

\* get_suburl.py get_subscription_from_airport, from the response on; an
\* exception under the try is caught at line 78 and None is returned
suburl_get_subscription_from_airport(airport_url, resp, soup_raises) ==
    IF resp.kind = "error" THEN Ran(PyNone, <<>>)
    ELSE IF resp.status = STATUS_OK THEN
        LET subscription_url == extract_url_re(resp.text, CLASH)
        IN  IF Truthy(subscription_url) THEN Ran(subscription_url, <<1>>)
            ELSE LET other == extract_subscription_url(resp.text, airport_url, soup_raises)
                 IN  Ran(IF other.url = PyRaise THEN PyNone ELSE other.url, <<1>> \o other.ran)
    ELSE Ran(PyNone, <<>>)

-----------------------------------------------------------------------------
(* subcon.py: get_subscription_content *)

\* faulty variant: a body that does not decode is reported as a failed fetch
get_subscription_content_decode_fatal(resp) ==
    IF resp.kind = "error" \/ RaisesForStatus(resp) THEN PyNone
    ELSE LET raw == b64decode(resp.text)
             txt == IF raw.ok THEN utf8_decode(raw.val, 1, <<>>) ELSE Failed
         IN  IF txt.ok THEN Str(txt.val) ELSE PyNone

get_subscription_content(resp) ==
    IF resp.kind = "error" \/ RaisesForStatus(resp) THEN PyNone
    ELSE LET raw == b64decode(resp.text)
             txt == IF raw.ok THEN utf8_decode(raw.val, 1, <<>>) ELSE Failed
         IN  IF txt.ok THEN Str(txt.val) ELSE Str(resp.text)

-----------------------------------------------------------------------------
(* Airport configuration: one object of the AIRPORTS array *)

\* url and cookie are None (absent), '' or a value; active is absent, true or false
Airport(url, cookie, active) == [url |-> url, cookie |-> cookie, active |-> active]

FieldValues(v) == {PyNone, Str(<<>>), Str(v)}

AirportConfigs ==
    {Airport(Str(AIRPORT_URL), Str(COOKIE), a) : a \in {"missing", "true", "false"}}
    \cup {Airport(u, Str(COOKIE), "true") : u \in FieldValues(AIRPORT_URL)}
    \cup {Airport(Str(AIRPORT_URL), c, "true") : c \in FieldValues(COOKIE)}

AirportLists == SeqsUpTo(AirportConfigs, MaxAirports)

\* a GET in the request log: the dashboard or the subscription content of airport i
Get(what, i) == [what |-> what, airport |-> i]

-----------------------------------------------------------------------------
(* subcon.py: get_subscription_from_airport *)

LINK_SEG == S(<<"/", "l", "i", "n", "k", "/">>)
SUBSCRIBE == S(<<"s", "u", "b", "s", "c", "r", "i", "b", "e">>)
SUB == S(<<"s", "u", "b">>)
QUESTION == Ord("?")

\* r'https?://[^\s<>"]+/link/[^\s<>"?]+' searched in text t that holds none of the
\* excluded characters but '?': leftmost scheme, last usable /link/, up to the next '?'
link_pattern(t) ==
    LET ends(j) == {k \in (j + SchemeLen(t, j) + 1)..Len(t) :
                      /\ OccursAt(t, LINK_SEG, k)
                      /\ k + Len(LINK_SEG) <= Len(t)
                      /\ t[k + Len(LINK_SEG)] # QUESTION}
        starts == {j \in 1..Len(t) : SchemeLen(t, j) > 0 /\ ends(j) # {}}
    IN  IF starts = {} THEN PyNone
        ELSE LET j == Min(starts)
                 k == CHOOSE x \in ends(j) : \A y \in ends(j) : x >= y
                 stop == {q \in (k + Len(LINK_SEG))..Len(t) : t[q] = QUESTION}
             IN  Str(SubSeq(t, j, IF stop = {} THEN Len(t) ELSE Min(stop) - 1))

\* r'https?://[^\s<>"]+subscribe[^\s<>"]*' and r'https?://[^\s<>"]+sub[^\s<>"]*'
word_pattern(t, word) ==
    LET starts == {j \in 1..Len(t) :
                     /\ SchemeLen(t, j) > 0
                     /\ \E k \in (j + SchemeLen(t, j) + 1)..Len(t) : OccursAt(t, word, k)}
    IN  IF starts = {} THEN PyNone ELSE Str(From(t, Min(starts)))

\* the three patterns, in the order of the list
patterns(t) == <<link_pattern(t), word_pattern(t, SUBSCRIBE), word_pattern(t, SUB)>>

\* the text of a fragment's URL as these patterns see it in response.text: a
\* single quote is not excluded, so it is part of the match
RawUrl(f) == IF f.kind = "a_sq" THEN f.url \o S(<<"'">>) ELSE f.url

\* lines 67-101: the first anchor whose href matches a pattern, else the first
\* pattern that matches the page text
find_subscription_url(page) ==
    LET hrefs == [i \in 1..Len(page) |->
                    IF page[i].kind \in {"a_dq", "a_sq"}
                       /\ FirstSome(patterns(page[i].url)) # PyNone
                    THEN Str(page[i].url) ELSE PyNone]
        in_text(n) == FirstSome([i \in 1..Len(page) |-> patterns(RawUrl(page[i]))[n]])
    IN  IF FirstSome(hrefs) # PyNone THEN FirstSome(hrefs)
        ELSE FirstSome(<<in_text(1), in_text(2), in_text(3)>>)

\* line 65: raise Exception("Debugging stop"), unconditional once the page is parsed
DebuggingStop == TRUE

get_subscription_from_airport(airport_url, cookie, resp) ==
    IF resp.kind = "error" \/ RaisesForStatus(resp) THEN PyNone        \* RequestException
    ELSE IF DebuggingStop THEN PyNone                                  \* except Exception
    ELSE find_subscription_url(resp.text)

-----------------------------------------------------------------------------
(* subcon.py: merge_all_nodes *)

PIPE == Ord("|")

StripAll(parts) == [i \in 1..Len(parts) |-> Strip(parts[i])]

\* faulty variant: entries are not trimmed
local_node_list_untrimmed(local_nodes) ==
    IF local_nodes = <<>> THEN <<>>
    ELSE NonEmpty(Split(local_nodes, PIPE))

\* lines 139-146: the entries of local_nodes appended to all_nodes
local_node_list(local_nodes) ==
    IF local_nodes = <<>> THEN <<>>
    ELSE NonEmpty(StripAll(Split(local_nodes, PIPE)))

\* line 171: [line.strip() for line in content.splitlines() if line.strip()]
node_lines(content) == NonEmpty(StripAll(SplitLines(content)))

\* faulty variant: an airport without a subscription link resets the list
merge_airport_reset(nodes, sub_url, content) ==
    IF ~Truthy(sub_url) THEN <<>>
    ELSE IF Truthy(content) THEN nodes \o node_lines(content.s)
    ELSE nodes

\* lines 163-175: all_nodes after one airport that has a url and a cookie
merge_airport(nodes, sub_url, content) ==
    IF ~Truthy(sub_url) THEN nodes
    ELSE IF Truthy(content) THEN nodes \o node_lines(content.s)
    ELSE nodes

\* faulty variant: a failed dashboard fetch is tried once more
airport_requests_retry(i, sub_url) ==
    IF ~Truthy(sub_url) THEN <<Get("dashboard", i), Get("dashboard", i)>>
    ELSE <<Get("dashboard", i), Get("content", i)>>

\* the GETs of one iteration: requests.get at line 59, and at line 116 once a
\* subscription link was returned
airport_requests(i, sub_url) ==
    IF ~Truthy(sub_url) THEN <<Get("dashboard", i)>>
    ELSE <<Get("dashboard", i), Get("content", i)>>

-----------------------------------------------------------------------------
(* subcon.py: generate_subconvert_url *)

\* urllib.parse.urlencode of a base64 string: + / = are percent-encoded
QuoteChar(c) ==
    IF c = Ord("+") THEN S(<<"%", "2", "B">>)
    ELSE IF c = Ord("/") THEN S(<<"%", "2", "F">>)
    ELSE IF c = Ord("=") THEN S(<<"%", "3", "D">>)
    ELSE <<c>>
RECURSIVE Quote(_)
Quote(s) == IF s = <<>> THEN <<>> ELSE QuoteChar(s[1]) \o Quote(Tail(s))

\* the query parameters that vary: target and url (the other nine are fixed text)
generate_subconvert_url(subscription_content, output_format) ==
    [target |-> output_format,
     url |-> Quote(b64encode(utf8_encode(subscription_content)))]

\* main, lines 237-242
formats == <<"clash", "v2ray", "surge", "surfboard">>

-----------------------------------------------------------------------------
(* What the servers answer *)

PAGE_NO_LINK == <<Fragment("a_dq", URL_PLAIN)>>
PAGE_LINK == <<Fragment("a_dq", URL_LINK)>>

DashResponses ==
    {NetError, Http(404, <<>>), Http(STATUS_OK, PAGE_NO_LINK), Http(STATUS_OK, PAGE_LINK)}

TWO_LINES == S(<<"n", "1">>) \o <<NL>> \o S(<<"n", "2">>)

SubscriptionResponses == {NetError, Http(STATUS_OK, <<>>), Http(STATUS_OK, TWO_LINES)}

\* what is recorded of one iteration of an airport loop
Served(requested, dash, cont, before, ret) ==
    [requested |-> requested, dash |-> dash, cont |-> cont, before |-> before, ret |-> ret]

-----------------------------------------------------------------------------
(* subcon.py: main *)

\* lines 212-223, and lines 136-147 of merge_all_nodes
MainStart ==
    /\ mode = "subcon" /\ pc = "start"
    /\ IF airports = <<>> /\ LOCAL_NODES = <<>>
       THEN pc' = "no_config" /\ UNCHANGED all_nodes
       ELSE pc' = "loop" /\ all_nodes' = local_node_list(Strip(LOCAL_NODES))
    /\ UNCHANGED <<mode, airports, LOCAL_NODES, idx, requests, served, merged_content,
                   emitted, call>>

\* one iteration of the loop of merge_all_nodes, lines 150-175
MergeAirport ==
    /\ mode = "subcon" /\ pc = "loop" /\ idx < Len(airports)
    /\ LET airport == airports[idx + 1] IN
        IF ~Truthy(airport.url) \/ ~Truthy(airport.cookie)
        THEN /\ served' = Append(served, Served(FALSE, NetError, NetError, all_nodes, PyNone))
             /\ UNCHANGED <<all_nodes, requests>>
        ELSE \E dash \in DashResponses, cont \in SubscriptionResponses :
                LET sub_url == get_subscription_from_airport(airport.url.s, airport.cookie.s, dash)
                    content == IF Truthy(sub_url) THEN get_subscription_content(cont) ELSE PyNone
                IN  /\ requests' = requests \o airport_requests(idx + 1, sub_url)
                    /\ all_nodes' = merge_airport(all_nodes, sub_url, content)
                    /\ served' = Append(served, Served(TRUE, dash, cont, all_nodes, sub_url))
    /\ idx' = idx + 1
    /\ UNCHANGED <<mode, pc, airports, LOCAL_NODES, merged_content, emitted, call>>

\* faulty variant: the converter URLs are built even from an empty merge
converter_urls_always(content) ==
    [i \in 1..Len(formats) |-> generate_subconvert_url(content, formats[i])]

\* lines 225-249: nothing is emitted for an empty merge
converter_urls(content) ==
    IF content = <<>> THEN <<>>
    ELSE [i \in 1..Len(formats) |-> generate_subconvert_url(content, formats[i])]

\* line 177 and lines 225-249
MainFinish ==
    /\ mode = "subcon" /\ pc = "loop" /\ idx = Len(airports)
    /\ merged_content' = Join(all_nodes, NL)
    /\ emitted' = converter_urls(merged_content')
    /\ pc' = IF emitted' = <<>> THEN "no_nodes" ELSE "done"
    /\ UNCHANGED <<mode, airports, LOCAL_NODES, idx, all_nodes, requests, served, call>>

-----------------------------------------------------------------------------
(* get_suburl.py: process_airports *)

\* one iteration of the loop, lines 158-182
ProcessAirport ==
    /\ mode = "suburl" /\ pc = "loop" /\ idx < Len(airports)
    /\ LET airport == airports[idx + 1] IN
        IF airport.active = "false" \/ ~Truthy(airport.url) \/ ~Truthy(airport.cookie)
        THEN /\ served' = Append(served, Served(FALSE, NetError, NetError, <<>>, PyNone))
             /\ UNCHANGED requests
        ELSE \E dash \in DashResponses, soup_raises \in BOOLEAN :
                LET got == suburl_get_subscription_from_airport(airport.url.s, dash, soup_raises)
                IN  /\ requests' = Append(requests, Get("dashboard", idx + 1))
                    /\ served' = Append(served, Served(TRUE, dash, NetError, <<>>, got.url))
    /\ idx' = idx + 1
    /\ UNCHANGED <<mode, pc, airports, LOCAL_NODES, all_nodes, merged_content, emitted, call>>

\* the loop is over
ProcessDone ==
    /\ mode = "suburl" /\ pc = "loop" /\ idx = Len(airports)
    /\ pc' = "done"
    /\ UNCHANGED <<mode, airports, LOCAL_NODES, idx, all_nodes, requests, served,
                   merged_content, emitted, call>>

-----------------------------------------------------------------------------
(* The runs of the two programs *)

LocalChars == {Ord("a"), Ord("b"), Ord(" "), PIPE}
LocalStrings == SeqsUpTo(LocalChars, MaxLocalLen)
LOCAL_EXAMPLE == S(<<"a", " ", "|", " ", "b", " ", "|", "c">>)
LOCAL_TWO == S(<<"a", "|", "b">>)

NoCall == [fn |-> "none"]

Init ==
    /\ mode \in {"subcon", "suburl"}
    /\ \/ /\ mode = "subcon" /\ pc = "start"
          /\ \/ airports \in AirportLists /\ LOCAL_NODES \in {<<>>, LOCAL_TWO}
             \/ airports = <<>> /\ LOCAL_NODES \in LocalStrings \cup {LOCAL_EXAMPLE}
       \/ /\ mode = "suburl" /\ pc = "loop"
          /\ airports \in AirportLists /\ LOCAL_NODES = <<>>
    /\ idx = 0
    /\ all_nodes = <<>>
    /\ requests = <<>>
    /\ served = <<>>
    /\ merged_content = <<>>
    /\ emitted = <<>>
    /\ call = NoCall

Next == MainStart \/ MergeAirport \/ MainFinish \/ ProcessAirport \/ ProcessDone

Spec == Init /\ [][Next]_vars

-----------------------------------------------------------------------------
(* The link extractor of get_suburl.py, called on bounded pages *)

CallInputs ==
    {[fn |-> f, resp |-> r, soup_raises |-> x, ret |-> Ran(PyNone, <<>>)] :
        f \in {"get_subscription_from_airport", "extract_subscription_url"},
        r \in {Http(STATUS_OK, page) : page \in Pages},
        x \in BOOLEAN}
    \cup {[fn |-> "get_subscription_from_airport", resp |-> r, soup_raises |-> FALSE,
           ret |-> Ran(PyNone, <<>>)] : r \in {NetError, Http(404, <<>>)}}

InitExtract ==
    /\ mode = "extract" /\ pc = "call"
    /\ call \in CallInputs
    /\ airports = <<>> /\ LOCAL_NODES = <<>> /\ idx = 0 /\ all_nodes = <<>>
    /\ requests = <<>> /\ served = <<>> /\ merged_content = <<>> /\ emitted = <<>>

CallGetSubscriptionFromAirport ==
    /\ mode = "extract" /\ pc = "call" /\ call.fn = "get_subscription_from_airport"
    /\ call' = [call EXCEPT !.ret =
                   suburl_get_subscription_from_airport(AIRPORT_URL, call.resp, call.soup_raises)]
    /\ pc' = "done"
    /\ UNCHANGED <<mode, airports, LOCAL_NODES, idx, all_nodes, requests, served,
                   merged_content, emitted>>

CallExtractSubscriptionUrl ==
    /\ mode = "extract" /\ pc = "call" /\ call.fn = "extract_subscription_url"
    /\ call' = [call EXCEPT !.ret =
                   extract_subscription_url(call.resp.text, AIRPORT_URL, call.soup_raises)]
    /\ pc' = "done"
    /\ UNCHANGED <<mode, airports, LOCAL_NODES, idx, all_nodes, requests, served,
                   merged_content, emitted>>

NextExtract == CallGetSubscriptionFromAirport \/ CallExtractSubscriptionUrl

SpecExtract == InitExtract /\ [][NextExtract]_vars

-----------------------------------------------------------------------------
(* get_subscription_content of subcon.py, called on bounded responses *)

BodyChars == {Ord("a"), Ord("G"), Ord("k"), Ord("="), Ord("!")}
Bodies == SeqsUpTo(BodyChars, MaxBodyLen)

\* h, i, a line feed, e-acute (two bytes in UTF-8) and the euro sign (three bytes)
TextChars == {Ord("h"), Ord("i"), NL, 233, 8364}
Texts == SeqsUpTo(TextChars, MaxTextLen)
EncodedTexts == {b64encode(utf8_encode(t)) : t \in Texts}

ContentInputs ==
    {NetError, Http(404, <<>>)}
    \cup {Http(STATUS_OK, b) : b \in Bodies \cup EncodedTexts}

InitContent ==
    /\ mode = "content" /\ pc = "call"
    /\ call \in {[fn |-> "get_subscription_content", resp |-> r, ret |-> PyNone] :
                    r \in ContentInputs}
    /\ airports = <<>> /\ LOCAL_NODES = <<>> /\ idx = 0 /\ all_nodes = <<>>
    /\ requests = <<>> /\ served = <<>> /\ merged_content = <<>> /\ emitted = <<>>

CallGetSubscriptionContent ==
    /\ mode = "content" /\ pc = "call"
    /\ call' = [call EXCEPT !.ret = get_subscription_content(call.resp)]
    /\ pc' = "done"
    /\ UNCHANGED <<mode, airports, LOCAL_NODES, idx, all_nodes, requests, served,
                   merged_content, emitted>>

NextContent == CallGetSubscriptionContent

SpecContent == InitContent /\ [][NextContent]_vars

-----------------------------------------------------------------------------
(* Properties of the link extractor *)

ExtractDone(fn) == mode = "extract" /\ pc = "done" /\ call.fn = fn

\* what each of the four strategies finds on the page of the call, taken alone
Strategies ==
    <<extract_url_re(call.resp.text, CLASH),
      Method1(call.resp.text),
      Method2(call.resp.text),
      Method3(call.resp.text, AIRPORT_URL, call.soup_raises)>>

\* the strategies that must have run, given what each finds: all up to the
\* first that finds a URL
MustRun(found) == {n \in 1..4 : \A m \in 1..(n - 1) : found[m] = PyNone}

\* C3: on a page fetched with status 200 the strategies run in the order 1, 2, 3,
\* 4, a strategy runs only if every earlier one found nothing, and the URL
\* returned is the one found by the earliest strategy that finds one.
C3_FirstMatchWins ==
    (ExtractDone("get_subscription_from_airport") /\ call.resp.status = STATUS_OK)
        => LET found == Strategies
           IN  /\ call.ret.ran = [n \in 1..Cardinality(MustRun(found)) |-> n]
               /\ call.ret.url = FirstSome(found)

\* C3 witness: strategy 1 matches on a page where a fallback strategy would
\* match another URL, and only strategy 1 has run.
C3_Witness ==
    /\ ExtractDone("get_subscription_from_airport")
    /\ LET found == Strategies
       IN  /\ found[1] # PyNone
           /\ found[2] # PyNone
           /\ found[2] # found[1]
           /\ call.ret = Ran(found[1], <<1>>)

\* the structured scan of the page when the parser does not raise
ScanFinds == Method3(call.resp.text, AIRPORT_URL, FALSE)

\* C4: the extractor returns a URL or None and never raises; it returns None
\* when no strategy matches, and when strategies 1-3 find nothing and the
\* structured scan raises.
C4_NeverRaises ==
    (mode = "extract" /\ pc = "done") =>
        LET found == Strategies
            first == IF call.fn = "extract_subscription_url" THEN 2 ELSE 1
        IN  /\ call.ret.url.type \in {"None", "str"}
            /\ ((\A n \in first..3 : found[n] = PyNone)
                  /\ (call.soup_raises \/ ScanFinds = PyNone))
                 => call.ret.url = PyNone

\* C4 witness: the parser raises on a page whose only match is an anchor the
\* structured scan would return, and extract_subscription_url returns None.
C4_Witness ==
    /\ ExtractDone("extract_subscription_url")
    /\ call.soup_raises
    /\ Method1(call.resp.text) = PyNone /\ Method2(call.resp.text) = PyNone
    /\ ScanFinds # PyNone
    /\ call.ret.url = PyNone

\* an absolute http(s) URL: it starts with http:// or https://
IsAbsoluteHttp(url) == SchemeLen(url, 1) > 0

\* the anchor C8 describes: the href has a keyword and, once a leading '/' is
\* resolved against the base URL, is an absolute http(s) URL
C8_Anchor(f) ==
    IF f.kind \in {"a_dq", "a_sq"} /\ HasKeyword(f.url) THEN
        LET href == IF StartsWith(f.url, SLASH) THEN urljoin(AIRPORT_URL, f.url) ELSE f.url
        IN  IF IsAbsoluteHttp(href) THEN Str(href) ELSE PyNone
    ELSE PyNone

\* C8: when strategies 1-3 find nothing, the structured scan returns the first
\* anchor whose href has a keyword and resolves to an absolute http(s) URL; an
\* anchor whose href is neither absolute http(s) nor starts with '/' is skipped.
C8_FirstAbsoluteAnchor ==
    (ExtractDone("extract_subscription_url") /\ ~call.soup_raises
        /\ Method1(call.resp.text) = PyNone /\ Method2(call.resp.text) = PyNone)
        => call.ret.url =
              FirstSome([i \in 1..Len(call.resp.text) |-> C8_Anchor(call.resp.text[i])])

-----------------------------------------------------------------------------
(* Properties of get_subscription_content *)

ContentDone == mode = "content" /\ pc = "done"
Is2xx(resp) == resp.kind = "http" /\ resp.status >= 200 /\ resp.status < 300

\* valid base64 as RFC 4648 writes it: quads of alphabet characters, the last
\* one ending in at most two pads
StrictBase64(body) ==
    /\ Len(body) % 4 = 0
    /\ \A i \in 1..Len(body) :
          \/ IsB64(body[i])
          \/ /\ body[i] = PAD
             /\ i >= Len(body) - 1
             /\ \A j \in i..Len(body) : body[j] = PAD

\* C7 as stated: a 2xx response never gives None, valid base64 of UTF-8 text
\* gives the decoded text, and a body that is not valid base64 is returned
\* unchanged.
C7_RawWhenNotBase64 ==
    (ContentDone /\ Is2xx(call.resp))
        => /\ call.ret # PyNone
           /\ \A t \in Texts :
                 call.resp.text = b64encode(utf8_encode(t)) => call.ret = Str(t)
           /\ ~StrictBase64(call.resp.text) => call.ret = Str(call.resp.text)

\* the characters of the base64 alphabet in a text, in order
RECURSIVE AlphabetOnly(_)
AlphabetOnly(s) ==
    IF s = <<>> THEN <<>>
    ELSE (IF IsB64(s[1]) THEN <<s[1]>> ELSE <<>>) \o AlphabetOnly(Tail(s))

\* text is a decoding of body: the alphabet characters of its encoding start
\* the alphabet characters of body, up to the unused bits of the last one
DecodingOf(text, body) ==
    LET enc == AlphabetOnly(b64encode(utf8_encode(text)))
        src == AlphabetOnly(body)
    IN  /\ Len(enc) <= Len(src)
        /\ \A i \in 1..(Len(enc) - 1) : enc[i] = src[i]

\* C7, amended: a 2xx response never gives None; valid base64 of UTF-8 text
\* gives the decoded text; a body without padding whose alphabet characters do
\* not fill whole quads is returned unchanged; any other result than the body
\* itself is a decoding of the body's alphabet characters.
C7_LenientDecode ==
    (ContentDone /\ Is2xx(call.resp))
        => /\ call.ret # PyNone
           /\ \A t \in Texts :
                 call.resp.text = b64encode(utf8_encode(t)) => call.ret = Str(t)
           /\ (~Contains(call.resp.text, <<PAD>>)
                 /\ Len(AlphabetOnly(call.resp.text)) % 4 # 0)
                => call.ret = Str(call.resp.text)
           /\ call.ret # Str(call.resp.text)
                => DecodingOf(call.ret.s, call.resp.text)

\* C7 witness: a body that is not base64 and cannot be decoded comes back unchanged.
C7_Witness ==
    /\ ContentDone /\ Is2xx(call.resp)
    /\ ~StrictBase64(call.resp.text)
    /\ Contains(call.resp.text, <<PAD>>)
    /\ call.ret = Str(call.resp.text)

-----------------------------------------------------------------------------
(* Properties of the run of subcon.py and of process_airports *)

MainEnded == mode = "subcon" /\ pc \in {"no_config", "no_nodes", "done"}

\* all_nodes after the i-th airport was gone through
NodesAfter(i) == IF i < Len(served) THEN served[i + 1].before ELSE all_nodes

DashboardFailed(sv) == sv.dash.kind = "error" \/ sv.dash.status >= 400
ExtractionFailed(sv) == ~DashboardFailed(sv) /\ sv.ret = PyNone
ContentFailed(sv) == sv.ret # PyNone /\ ~Truthy(get_subscription_content(sv.cont))

IsPrefix(a, b) == Len(a) <= Len(b) /\ SubSeq(b, 1, Len(a)) = a

\* C1: an airport for which the dashboard fetch, the link extraction or the
\* content fetch fails leaves the accumulated list as it was, and going through
\* any airport keeps the lines already accumulated, in place and unaltered.
C1_FailedAirportAddsNothing ==
    mode = "subcon" =>
        \A i \in 1..Len(served) :
            /\ IsPrefix(served[i].before, NodesAfter(i))
            /\ (served[i].requested
                  /\ (DashboardFailed(served[i]) \/ ExtractionFailed(served[i])
                        \/ ContentFailed(served[i])))
                 => NodesAfter(i) = served[i].before

\* C1 witness: with local nodes in the list, one airport failed at the dashboard
\* fetch and another at the link extraction, and the list is what it was.
C1_Witness ==
    /\ mode = "subcon" /\ Len(served) = 2
    /\ served[1].requested /\ DashboardFailed(served[1])
    /\ served[2].requested /\ ExtractionFailed(served[2])
    /\ served[1].before # <<>>
    /\ all_nodes = served[1].before

\* the airports whose three stages succeed: the dashboard answers without an
\* error status, the page holds a subscription link, the content is fetched
StagesSucceed(sv) ==
    /\ sv.requested
    /\ ~DashboardFailed(sv)
    /\ find_subscription_url(sv.dash.text) # PyNone
    /\ Truthy(get_subscription_content(sv.cont))

RECURSIVE AirportLines(_)
AirportLines(history) ==
    IF history = <<>> THEN <<>>
    ELSE (IF StagesSucceed(history[1])
          THEN node_lines(get_subscription_content(history[1].cont).s)
          ELSE <<>>)
         \o AirportLines(Tail(history))

\* C2: the output of merge_all_nodes is the newline-join of the local node
\* entries followed by, for each airport in config order whose three stages
\* succeed, the non-empty trimmed lines of its content.
C2_MergedOutput ==
    (mode = "subcon" /\ pc \in {"no_nodes", "done"})
        => merged_content =
              Join(local_node_list(Strip(LOCAL_NODES)) \o AirportLines(served), NL)

\* C5 as stated: main ends without converter URLs only when no airport and no
\* local node is configured.
C5_EarlyEndOnlyWithoutConfig ==
    MainEnded => (emitted = <<>> <=> (airports = <<>> /\ LOCAL_NODES = <<>>))

\* C5, amended: main ends without converter URLs exactly when no airport and no
\* local node is configured or the merge obtained no node; otherwise it emits
\* one converter URL per format, in the order clash, v2ray, surge, surfboard.
C5_EarlyEndWithoutNodes ==
    MainEnded =>
        /\ emitted = <<>> <=> ((airports = <<>> /\ LOCAL_NODES = <<>>) \/ all_nodes = <<>>)
        /\ emitted # <<>> =>
              /\ Len(emitted) = Len(formats)
              /\ \A i \in 1..Len(formats) :
                    /\ emitted[i].target = formats[i]
                    /\ emitted[i].url = Quote(b64encode(utf8_encode(merged_content)))

\* C5 witness: an airport is configured and was requested, no node was obtained,
\* and main ended without converter URLs.
C5_Witness ==
    /\ MainEnded /\ pc = "no_nodes"
    /\ airports # <<>> /\ requests # <<>>
    /\ emitted = <<>>

RECURSIVE Dashboards(_)
Dashboards(log) ==
    IF log = <<>> THEN <<>>
    ELSE (IF log[1].what = "dashboard" THEN <<log[1]>> ELSE <<>>) \o Dashboards(Tail(log))

AllComplete == \A i \in 1..Len(airports) : Truthy(airports[i].url) /\ Truthy(airports[i].cookie)

\* C6: over airports that each have a url and a cookie, one dashboard GET is
\* issued per airport in config order whatever failed before; a content GET
\* directly follows the dashboard GET of its airport, whose dashboard fetch and
\* link extraction succeeded; no request is issued twice.
C6_OneRequestPerStage ==
    (mode = "subcon" /\ AllComplete) =>
        /\ Dashboards(requests) = [i \in 1..idx |-> Get("dashboard", i)]
        /\ \A k \in 1..Len(requests) :
              requests[k].what = "content" =>
                 /\ k > 1
                 /\ requests[k - 1] = Get("dashboard", requests[k].airport)
                 /\ ~DashboardFailed(served[requests[k].airport])
                 /\ served[requests[k].airport].ret # PyNone
        /\ \A k, l \in 1..Len(requests) : requests[k] = requests[l] => k = l

\* C6 witness: the first of two airports failed at the dashboard fetch, and the
\* log holds the two dashboard GETs only.
C6_Witness ==
    /\ mode = "subcon" /\ AllComplete /\ idx = 2
    /\ DashboardFailed(served[1])
    /\ requests = <<Get("dashboard", 1), Get("dashboard", 2)>>

\* the entries of a pipe-separated text, by position: a segment lies between two
\* neighbouring cuts (a pipe or an end of the text); it counts when it holds a
\* character that is not whitespace, and is trimmed to its outermost such characters
Cuts(text) == {0, Len(text) + 1} \cup {i \in 1..Len(text) : text[i] = PIPE}
Segments(text) ==
    {seg \in Cuts(text) \X Cuts(text) :
        /\ seg[1] < seg[2]
        /\ \A c \in Cuts(text) : ~(seg[1] < c /\ c < seg[2])
        /\ \E i \in (seg[1] + 1)..(seg[2] - 1) : ~IsSpace(text[i])}
Trimmed(text, seg) ==
    LET inked == {i \in (seg[1] + 1)..(seg[2] - 1) : ~IsSpace(text[i])}
    IN  SubSeq(text, Min(inked), CHOOSE i \in inked : \A j \in inked : i >= j)
IsEntriesOf(entries, text) ==
    /\ Len(entries) = Cardinality(Segments(text))
    /\ \A seg \in Segments(text) :
          entries[1 + Cardinality({other \in Segments(text) : other[1] < seg[1]})]
              = Trimmed(text, seg)

\* the local entries: what the list held when the airport loop began
LocalPart == IF served = <<>> THEN all_nodes ELSE served[1].before

\* C9: the local nodes contributed are exactly the pipe-separated entries of the
\* local-nodes string, trimmed, without the empty ones, in order, at the head of
\* the list ("a | b |c" gives a, b, c).
C9_LocalEntries ==
    (mode = "subcon" /\ pc \in {"loop", "no_nodes", "done"}) =>
        /\ IsEntriesOf(LocalPart, LOCAL_NODES)
        /\ IsPrefix(LocalPart, all_nodes)
        /\ LOCAL_NODES = LOCAL_EXAMPLE
              => LocalPart = <<S(<<"a">>), S(<<"b">>), S(<<"c">>)>>

\* C9 witness: the run on "a | b |c" ended with the list a, b, c.
C9_Witness ==
    /\ mode = "subcon" /\ pc = "done"
    /\ LOCAL_NODES = LOCAL_EXAMPLE
    /\ all_nodes = <<S(<<"a">>), S(<<"b">>), S(<<"c">>)>>

\* C10: in both airport loops no request is issued for an airport whose active
\* flag is false or whose url or cookie is missing or empty, such an airport
\* contributes no node, and an airport without an active field is gone through.
C10_NoRequestForInactive ==
    mode \in {"subcon", "suburl"} =>
        /\ \A k \in 1..Len(requests) :
              LET airport == airports[requests[k].airport]
              IN  /\ airport.active # "false"
                  /\ Truthy(airport.url) /\ Truthy(airport.cookie)
        /\ \A i \in 1..Len(served) :
              LET airport == airports[i]
              IN  /\ (airport.active = "false" \/ ~Truthy(airport.url) \/ ~Truthy(airport.cookie))
                        => (~served[i].requested /\ NodesAfter(i) = served[i].before)
                  /\ (airport.active = "missing" /\ Truthy(airport.url) /\ Truthy(airport.cookie))
                        => served[i].requested

=============================================================================
